---- MODULE Spec2Model ----
(***************************************************************************)
(* Forecast computation and caching engine of the financial forecasting    *)
(* service (service/forecasting_service.go): request validation, default   *)
(* filling, cache key, the read/write-locked cache map, the upstream rate  *)
(* fetch and the model dispatch of GenerateForecast, and ClearCache.        *)
(*                                                                         *)
(* Representation.                                                         *)
(*   - Go strings are TLA+ strings; fmt.Sprintf is string concatenation.   *)
(*   - float64 amounts are fixed point, in tenths (14 is 1.4).             *)
(*   - float64 rates are fixed point, in 1/10000 (1200 is 0.12).           *)
(*   - a []ForecastPeriod slice is a reference into heap, the backing      *)
(*     arrays: copying a ForecastResponse copies the reference.            *)
(*   - a returned (pointer, error) pair is [resp, err]: resp is <<>>      *)
(*     for nil and <<r>> for a pointer to the caller's own struct r.       *)
(***************************************************************************)
EXTENDS Integers, Sequences, FiniteSets, TLC

VARIABLES
    config,     \* fs.config: SupportedCurrencies, DefaultForecastPeriods,
                \* ForecastCacheTTL (seconds)
    cache,      \* fs.cache: map[string]ForecastResponse
    heap,       \* backing arrays of the Forecasts slices
    readers,    \* workers holding fs.cacheMutex for reading
    writer,     \* worker holding fs.cacheMutex for writing, or NoWorker
    now,        \* what time.Now() returned last
    pc,         \* each worker's position
    op,         \* the operation each worker is serving
    arg,        \* the request as the caller passed it (by value)
    req,        \* the caller's request object, which the call updates
    cacheKey,   \* local cacheKey
    response,   \* local response, assembled and waiting to be stored
    result,     \* what the call returned; the caller owns the struct in it
    calls,      \* calls started so far
    mutations,  \* changes callers have made to what they were given
    hist        \* history: what has happened, kept to state the properties

\* hist is a record:
\*   fetches, lookups, stores  per worker, what its current call performed
\*   lastStore   per key, the response the latest store since the last
\*               ClearCache put there
\*   settled     per key, the responses (slices read through) that calls
\*               stored before returning, since the last ClearCache
\*   sawSettled  per worker, settled of its key when its call began; emptied
\*               by a ClearCache that takes effect before its lookup
\*   cleared     a ClearCache has replaced the map and no store has taken
\*               effect since
\*   stale       keys that were cached when a ClearCache replaced the map
\*               and that no call begun after it has stored
\*   preClear    per worker, a ClearCache replaced the map during its call
\*   rates       per worker, <<the rate mapping>> its call's fetch returned,
\*               or <<>>

vars == <<config, cache, heap, readers, writer, now, pc, op, arg, req,
          cacheKey, response, result, calls, mutations, hist>>

----------------------------------------------------------------------------
(* Bounds *)

NumWorkers == 2
MaxCalls == 4
MaxMutations == 1
MaxClock == 5

Workers == 1..NumWorkers
NoWorker == 0

----------------------------------------------------------------------------
(* Inputs *)

\* Configurations Load can produce. SUPPORTED_CURRENCIES comes back from
\* getSupportedCurrencies upper-cased, trimmed and non-empty, with nothing
\* restricting the characters of a code; DEFAULT_FORECAST_PERIODS comes
\* back from mustAtoi as any integer, and so does
\* FORECAST_CACHE_TTL_SECONDS.
Configs ==
    { [SupportedCurrencies |-> <<"USD", "EUR">>,
       DefaultForecastPeriods |-> 1,
       ForecastCacheTTL |-> 300],
      [SupportedCurrencies |-> <<"USD", "EUR", "EUR_X">>,
       DefaultForecastPeriods |-> -1,
       ForecastCacheTTL |-> 30] }

\* The codes above that hold the cache key's separator.
CodesWithSeparator == {"EUR_X"}

Request(base, target, amount, periods, type) ==
    [BaseCurrency |-> base, TargetCurrency |-> target, Amount |-> amount,
     Periods |-> periods, ForecastType |-> type]

\* The requests callers send: periods and model left to the defaults; the
\* same spelled out, with another amount of the same integer part; a
\* non-positive amount; a model whose name holds the key's separator; a
\* currency code that holds it; a model the service does not know; a
\* request that fails several checks of the validator.
Requests ==
    { Request("USD", "EUR", 14, 0, ""),
      Request("USD", "EUR", 19, 1, "linear"),
      Request("USD", "EUR", 0, 0, ""),
      Request("USD", "EUR", 14, 1, "moving_average"),
      Request("USD", "EUR_X", 14, 1, "linear"),
      Request("USD", "EUR", 14, 1, "X_linear"),
      Request("", "XXX", -10, -1, "bogus") }

\* What the upstream answers: a rate mapping, or a failure of the fetch
\* (the service unreachable, or the call context cancelled or timed out
\* while the fetch was outstanding).
RateTables ==
    { [c \in {"EUR"} |-> 1200],
      [c \in {"EUR_X"} |-> 1300] }

FetchFailures ==
    { "failed to fetch rates: connection refused",
      "failed to fetch rates: context canceled" }

----------------------------------------------------------------------------
(* Arithmetic *)

Abs(n) == IF n < 0 THEN -n ELSE n

\* math.Round(n/d) for d > 0: half away from zero.
RoundDiv(n, d) ==
    LET m == Abs(n)
        q == IF 2 * (m % d) >= d THEN (m \div d) + 1 ELSE m \div d
    IN  IF n >= 0 THEN q ELSE -q

\* math.Round(a*x/d) for a, x >= 0, without forming a*x.
MulDivRound(a, x, d) == a * (x \div d) + RoundDiv(a * (x % d), d)


\* int(f) of a float64 held in tenths: truncation toward zero.
TruncAmount(a) == IF a >= 0 THEN a \div 10 ELSE -((-a) \div 10)

DigitChars == <<"0", "1", "2", "3", "4", "5", "6", "7", "8", "9">>

RECURSIVE NatToStr(_)
NatToStr(n) ==
    IF n < 10 THEN DigitChars[n + 1]
              ELSE NatToStr(n \div 10) \o DigitChars[(n % 10) + 1]

\* fmt's %d
IntToStr(n) == IF n < 0 THEN "-" \o NatToStr(-n) ELSE NatToStr(n)

----------------------------------------------------------------------------
(* Validator and cache key *)

NoError == ""

\* isCurrencySupported: a scan of fs.config.SupportedCurrencies.
isCurrencySupported(cfg, currency) ==
    \E i \in 1..Len(cfg.SupportedCurrencies) :
        cfg.SupportedCurrencies[i] = currency

\* Mutant: the upper limit of periods is exclusive.
validateForecastRequest_Below365(cfg, r) ==
    IF r.BaseCurrency = "" THEN "base currency is required"
    ELSE IF r.TargetCurrency = "" THEN "target currency is required"
    ELSE IF r.Amount <= 0 THEN "amount must be greater than 0"
    ELSE IF r.Periods < 0 THEN "periods cannot be negative"
    ELSE IF r.Periods >= 365 THEN "periods cannot exceed 365"
    ELSE IF ~isCurrencySupported(cfg, r.BaseCurrency)
         THEN "base currency " \o r.BaseCurrency \o " is not supported"
    ELSE IF ~isCurrencySupported(cfg, r.TargetCurrency)
         THEN "target currency " \o r.TargetCurrency \o " is not supported"
    ELSE NoError

\* validateForecastRequest: the first failing check's message, or NoError.
validateForecastRequest(cfg, r) ==
    IF r.BaseCurrency = "" THEN "base currency is required"
    ELSE IF r.TargetCurrency = "" THEN "target currency is required"
    ELSE IF r.Amount <= 0 THEN "amount must be greater than 0"
    ELSE IF r.Periods < 0 THEN "periods cannot be negative"
    ELSE IF r.Periods > 365 THEN "periods cannot exceed 365"
    ELSE IF ~isCurrencySupported(cfg, r.BaseCurrency)
         THEN "base currency " \o r.BaseCurrency \o " is not supported"
    ELSE IF ~isCurrencySupported(cfg, r.TargetCurrency)
         THEN "target currency " \o r.TargetCurrency \o " is not supported"
    ELSE NoError

\* The "Set defaults" block of GenerateForecast.
ApplyDefaults(cfg, r) ==
    [r EXCEPT
        !.Periods = IF r.Periods = 0 THEN cfg.DefaultForecastPeriods
                                     ELSE r.Periods,
        !.ForecastType = IF r.ForecastType = "" THEN "linear"
                                                ELSE r.ForecastType]

\* generateCacheKey: Sprintf("%s_%s_%s_%d_%d", ...) with int(req.Amount).
generateCacheKey(r) ==
    r.BaseCurrency \o "_" \o r.TargetCurrency \o "_" \o r.ForecastType
        \o "_" \o IntToStr(TruncAmount(r.Amount)) \o "_" \o IntToStr(r.Periods)

----------------------------------------------------------------------------
(* Model library.  A period is computed from currentRate and its index:    *)
(* its unrounded rate is currentRate * factor / den, the previous period's *)
(* currentRate * prevFactor / den. Rate and Change are in 1/10000, Amount  *)
(* and ChangePercent in 1/100. math.Round is taken of the exact quotient;  *)
(* the float64 product can fall on the other side of a tie.                *)

\* math.Round(a * f / (1000 * d)) for f >= 0, without forming a * f.
AmountRound(a, f, d) ==
    LET m == Abs(a)
        u == m * (f \div 1000)
        v == m * (f % 1000)
        q == (u \div d) + RoundDiv(1000 * (u % d) + v, 1000 * d)
    IN  IF a >= 0 THEN q ELSE -q

\* Mutant: the change is taken from the previous period's rounded rate.
ForecastPeriod_FromRoundedPrev(period, date, amount, currentRate, factor, prevFactor, den) ==
    [Period |-> period,
     Date |-> date,
     Rate |-> MulDivRound(currentRate, factor, den),
     Amount |-> AmountRound(amount * currentRate, factor, den),
     Change |-> IF period > 1
                THEN RoundDiv(currentRate * factor
                                - den * MulDivRound(currentRate, prevFactor, den),
                              den)
                ELSE 0,
     ChangePercent |->
        IF period > 1 THEN RoundDiv(10000 * (factor - prevFactor), prevFactor)
                      ELSE 0]

ForecastPeriod(period, date, amount, currentRate, factor, prevFactor, den) ==
    [Period |-> period,
     Date |-> date,
     Rate |-> MulDivRound(currentRate, factor, den),
     Amount |-> AmountRound(amount * currentRate, factor, den),
     Change |-> IF period > 1
                THEN RoundDiv(currentRate * (factor - prevFactor), den)
                ELSE 0,
     ChangePercent |->
        IF period > 1 THEN RoundDiv(10000 * (factor - prevFactor), prevFactor)
                      ELSE 0]

LinearConfidence == 7
ExponentialConfidence == 6
MovingAverageConfidence == 5

\* Mutant: the periods are numbered from 0.
generateLinearForecast_FromZero(currentRate, r, today) ==
    [forecasts |->
        [i \in 1..r.Periods |->
            ForecastPeriod(i - 1, today + i, r.Amount, currentRate,
                           1000 + i, 1000 + (i - 1), 1000)],
     confidenceScore |-> LinearConfidence]

\* generateLinearForecast: rate = currentRate * (1 + 0.001 * period).
generateLinearForecast(currentRate, r, today) ==
    [forecasts |->
        [i \in 1..r.Periods |->
            ForecastPeriod(i, today + i, r.Amount, currentRate,
                           1000 + i, 1000 + (i - 1), 1000)],
     confidenceScore |-> LinearConfidence]

\* math.Round(a * b / (h * h)) for a, b >= 0, without forming a * b.
MulFixed(a, b, h) ==
    LET w == (a \div h) * (b % h) + (a % h) * (b \div h)
    IN  (a \div h) * (b \div h) + (w \div h)
            + RoundDiv((w % h) * h + (a % h) * (b % h), h * h)

\* math.Pow(1.002, n) in 1/100000000, by squaring.
RECURSIVE Pow(_)
Pow(n) ==
    IF n <= 0 THEN 100000000
    ELSE LET half == Pow(n \div 2)
             square == MulFixed(half, half, 10000)
         IN  IF n % 2 = 1 THEN MulFixed(square, 100200000, 10000)
                          ELSE square

\* math.Pow(1.002, n) in 1/1000000: within 0.000001 of the power for n up
\* to 366.
Growth(n) == RoundDiv(Pow(n), 100)

\* generateExponentialForecast: rate = currentRate * 1.002^period.
generateExponentialForecast(currentRate, r, today) ==
    [forecasts |->
        [i \in 1..r.Periods |->
            ForecastPeriod(i, today + i, r.Amount, currentRate,
                           Growth(i), Growth(i - 1), 1000000)],
     confidenceScore |-> ExponentialConfidence]

\* math.Sin(period * 0.1) in 1/10000: the angle, in 1/1000000, reduced to
\* a quarter turn around 0, then the sine's series up to the thirteenth
\* power. Within 0.0001 of the sine for period up to 366.
Sin(period) ==
    LET turn == (100000 * period) % 6283185
        y == IF turn <= 1570796 THEN turn
             ELSE IF turn <= 4712389 THEN 3141593 - turn
             ELSE turn - 6283185
        x == Abs(y)
        q == MulFixed(x, x, 1000)
        t6 == 1000000 - RoundDiv(q, 156)
        t5 == 1000000 - RoundDiv(MulFixed(q, t6, 1000), 110)
        t4 == 1000000 - RoundDiv(MulFixed(q, t5, 1000), 72)
        t3 == 1000000 - RoundDiv(MulFixed(q, t4, 1000), 42)
        t2 == 1000000 - RoundDiv(MulFixed(q, t3, 1000), 20)
        t1 == 1000000 - RoundDiv(MulFixed(q, t2, 1000), 6)
        sine == RoundDiv(MulFixed(x, t1, 1000), 100)
    IN  IF y < 0 THEN -sine ELSE sine

\* math.Sin(period * 0.1) * 0.01 in 1/1000000.
Variation(period) == Sin(period)

\* generateMovingAverageForecast: rate = currentRate * (1 + variation).
generateMovingAverageForecast(currentRate, r, today) ==
    [forecasts |->
        [i \in 1..r.Periods |->
            ForecastPeriod(i, today + i, r.Amount, currentRate,
                           1000000 + Variation(i),
                           1000000 + Variation(i - 1), 1000000)],
     confidenceScore |-> MovingAverageConfidence]

SupportedTypes == {"linear", "exponential", "moving_average"}

\* The switch on req.ForecastType of GenerateForecast.
Dispatch(currentRate, r, today) ==
    CASE r.ForecastType = "linear" ->
            generateLinearForecast(currentRate, r, today)
      [] r.ForecastType = "exponential" ->
            generateExponentialForecast(currentRate, r, today)
      [] r.ForecastType = "moving_average" ->
            generateMovingAverageForecast(currentRate, r, today)

----------------------------------------------------------------------------
(* State *)

NoRequest == Request("", "", 0, 0, "")

\* (nil, nil): nothing returned yet, and what ClearCache returns.
NoResult == [resp |-> <<>>, err |-> NoError, panicked |-> FALSE]

\* return nil, fmt.Errorf(...)
Failure(msg) == [resp |-> <<>>, err |-> msg, panicked |-> FALSE]

\* return response, nil
Success(r) == [resp |-> <<r>>, err |-> NoError, panicked |-> FALSE]

\* make([]ForecastPeriod, n) with n < 0 panics; nothing is returned.
Panic(msg) == [resp |-> <<>>, err |-> msg, panicked |-> TRUE]

Returned(w) == result[w].resp # <<>>

\* A response with its Forecasts slice read through the heap.
Deep(h, r) == [r EXCEPT !.Forecasts = h[r.Forecasts]]

\* The references reachable from the cache, the locals and the results.
LiveRefs(c, rsp, res) ==
    {c[k].Forecasts : k \in DOMAIN c}
    \cup {rsp[w][1].Forecasts : w \in {v \in Workers : rsp[v] # <<>>}}
    \cup {res[w].resp[1].Forecasts : w \in {v \in Workers : res[v].resp # <<>>}}

\* Garbage collection: backing arrays nothing refers to are gone.
Collect(h, c, rsp, res) ==
    [a \in (DOMAIN h) \cap LiveRefs(c, rsp, res) |-> h[a]]

\* A reference no backing array has yet.
FreshRef(h) ==
    CHOOSE a \in 1..(Cardinality(DOMAIN h) + 1) : a \notin DOMAIN h

Lookup(m, k, default) == IF k \in DOMAIN m THEN m[k] ELSE default

\* The history of a call that begins on worker w with key k.
BeginCall(w, k) ==
    [hist EXCEPT !.fetches[w] = 0, !.lookups[w] = 0, !.stores[w] = 0,
                 !.sawSettled[w] = Lookup(hist.settled, k, {}),
                 !.preClear[w] = FALSE,
                 !.rates[w] = <<>>]

Init ==
    /\ config \in Configs
    /\ cache = <<>>
    /\ heap = <<>>
    /\ readers = {}
    /\ writer = NoWorker
    /\ now = 0
    /\ pc = [w \in Workers |-> "idle"]
    /\ op = [w \in Workers |-> "none"]
    /\ arg = [w \in Workers |-> NoRequest]
    /\ req = [w \in Workers |-> NoRequest]
    /\ cacheKey = [w \in Workers |-> ""]
    /\ response = [w \in Workers |-> <<>>]
    /\ result = [w \in Workers |-> NoResult]
    /\ calls = 0
    /\ mutations = 0
    /\ hist = [fetches |-> [w \in Workers |-> 0],
               lookups |-> [w \in Workers |-> 0],
               stores |-> [w \in Workers |-> 0],
               lastStore |-> <<>>,
               settled |-> <<>>,
               sawSettled |-> [w \in Workers |-> {}],
               cleared |-> FALSE,
               stale |-> {},
               preClear |-> [w \in Workers |-> FALSE],
               rates |-> [w \in Workers |-> <<>>]]

\* A call is served by an idle worker; idle workers are interchangeable,
\* so the first of them takes it.
CanCall(w) ==
    /\ pc[w] = "idle"
    /\ calls < MaxCalls
    /\ \A v \in Workers : v < w => pc[v] # "idle"

----------------------------------------------------------------------------
(* GenerateForecast *)

\* Mutant: the defaults are set before the request is validated.
RejectRequest_AfterDefaults(w, r, err) ==
    /\ req' = [req EXCEPT ![w] = ApplyDefaults(config, r)]
    /\ cacheKey' = [cacheKey EXCEPT ![w] = ""]
    /\ result' = [result EXCEPT ![w] = Failure("invalid request: " \o err)]
    /\ pc' = [pc EXCEPT ![w] = "done"]
    /\ hist' = BeginCall(w, "")

\* return nil, fmt.Errorf("invalid request: %w", err), before the defaults.
RejectRequest(w, r, err) ==
    /\ req' = [req EXCEPT ![w] = r]
    /\ cacheKey' = [cacheKey EXCEPT ![w] = ""]
    /\ result' = [result EXCEPT ![w] = Failure("invalid request: " \o err)]
    /\ pc' = [pc EXCEPT ![w] = "done"]
    /\ hist' = BeginCall(w, "")

\* Mutant: the cache key is computed before the defaults are set.
GenerateForecast_KeyBeforeDefaults(w, r) ==
    LET err == validateForecastRequest(config, r)
        d == ApplyDefaults(config, r)
        k == generateCacheKey(r)
    IN  /\ CanCall(w)
        /\ calls' = calls + 1
        /\ op' = [op EXCEPT ![w] = "GenerateForecast"]
        /\ arg' = [arg EXCEPT ![w] = r]
        /\ IF err # NoError
           THEN RejectRequest(w, r, err)
           ELSE /\ req' = [req EXCEPT ![w] = d]
                /\ cacheKey' = [cacheKey EXCEPT ![w] = k]
                /\ result' = [result EXCEPT ![w] = NoResult]
                /\ pc' = [pc EXCEPT ![w] = "rlock"]
                /\ hist' = BeginCall(w, k)
        /\ UNCHANGED <<config, cache, heap, readers, writer, now, response,
                       mutations>>

\* Entry: validate, set defaults, compute the cache key.
GenerateForecast(w, r) ==
    LET err == validateForecastRequest(config, r)
        d == ApplyDefaults(config, r)
        k == generateCacheKey(d)
    IN  /\ CanCall(w)
        /\ calls' = calls + 1
        /\ op' = [op EXCEPT ![w] = "GenerateForecast"]
        /\ arg' = [arg EXCEPT ![w] = r]
        /\ IF err # NoError
           THEN RejectRequest(w, r, err)
           ELSE /\ req' = [req EXCEPT ![w] = d]
                /\ cacheKey' = [cacheKey EXCEPT ![w] = k]
                /\ result' = [result EXCEPT ![w] = NoResult]
                /\ pc' = [pc EXCEPT ![w] = "rlock"]
                /\ hist' = BeginCall(w, k)
        /\ UNCHANGED <<config, cache, heap, readers, writer, now, response,
                       mutations>>

\* fs.cacheMutex.RLock()
GF_RLock(w) ==
    /\ pc[w] = "rlock"
    /\ writer = NoWorker
    /\ readers' = readers \cup {w}
    /\ pc' = [pc EXCEPT ![w] = "lookup"]
    /\ UNCHANGED <<config, cache, heap, writer, now, op, arg, req, cacheKey,
                   response, result, calls, mutations, hist>>

\* Mutant: the lookup never finds the entry, every call fetches.
GF_Lookup_AlwaysMiss(w) ==
    /\ pc[w] = "lookup"
    /\ hist' = [hist EXCEPT !.lookups[w] = @ + 1]
    /\ readers' = readers \ {w}
    /\ pc' = [pc EXCEPT ![w] = "fetch"]
    /\ UNCHANGED <<config, cache, heap, writer, now, op, arg, req, cacheKey,
                   response, result, calls, mutations>>

\* Mutant: a miss keeps the read lock while the rates are fetched.
GF_Lookup_KeepsRLock(w) ==
    /\ pc[w] = "lookup"
    /\ hist' = [hist EXCEPT !.lookups[w] = @ + 1]
    /\ IF cacheKey[w] \in DOMAIN cache
       THEN /\ readers' = readers \ {w}
            /\ result' = [result EXCEPT ![w] = Success(cache[cacheKey[w]])]
            /\ pc' = [pc EXCEPT ![w] = "done"]
       ELSE /\ readers' = readers
            /\ result' = result
            /\ pc' = [pc EXCEPT ![w] = "fetch"]
    /\ UNCHANGED <<config, cache, heap, writer, now, op, arg, req, cacheKey,
                   response, calls, mutations>>

\* cached, exists := fs.cache[cacheKey]; RUnlock on both branches; a hit
\* returns &cached, a copy of the map's value.
GF_Lookup(w) ==
    /\ pc[w] = "lookup"
    /\ hist' = [hist EXCEPT !.lookups[w] = @ + 1]
    /\ readers' = readers \ {w}
    /\ IF cacheKey[w] \in DOMAIN cache
       THEN /\ result' = [result EXCEPT ![w] = Success(cache[cacheKey[w]])]
            /\ pc' = [pc EXCEPT ![w] = "done"]
       ELSE /\ result' = result
            /\ pc' = [pc EXCEPT ![w] = "fetch"]
    /\ UNCHANGED <<config, cache, heap, writer, now, op, arg, req, cacheKey,
                   response, calls, mutations>>

\* Mutant: a failing return leaves what it has so far in the cache.
ReturnFailure_CachesPartial(w, res) ==
    /\ result' = [result EXCEPT ![w] = res]
    /\ pc' = [pc EXCEPT ![w] = "done"]
    /\ cache' = (cacheKey[w] :>
                    [BaseCurrency |-> req[w].BaseCurrency,
                     TargetCurrency |-> req[w].TargetCurrency,
                     CurrentRate |-> 0,
                     Amount |-> req[w].Amount,
                     ForecastType |-> req[w].ForecastType,
                     Periods |-> req[w].Periods,
                     Forecasts |-> 0,
                     GeneratedAt |-> 0,
                     ConfidenceScore |-> 0]) @@ cache
    /\ UNCHANGED <<heap, now, response>>

\* A failing return after the lookup: return nil, fmt.Errorf(...), or the
\* panic leaving the function. Nothing else changes.
ReturnFailure(w, res) ==
    /\ result' = [result EXCEPT ![w] = res]
    /\ pc' = [pc EXCEPT ![w] = "done"]
    /\ UNCHANGED <<cache, heap, now, response>>

\* Mutant: a failed fetch is tried once more before the failure is returned.
GF_FetchFailed_Retries(w) ==
    /\ pc[w] = "fetch"
    /\ hist' = [hist EXCEPT !.fetches[w] = @ + 1]
    /\ IF hist.fetches[w] = 0
       THEN UNCHANGED <<cache, heap, now, response, result, pc>>
       ELSE \E f \in FetchFailures :
              ReturnFailure(w, Failure("failed to fetch exchange rates: " \o f))
    /\ UNCHANGED <<config, readers, writer, op, arg, req, cacheKey, calls,
                   mutations>>

\* GetRates failed: return the failure.
GF_FetchFailed(w) ==
    /\ pc[w] = "fetch"
    /\ hist' = [hist EXCEPT !.fetches[w] = @ + 1]
    /\ \E f \in FetchFailures :
         ReturnFailure(w, Failure("failed to fetch exchange rates: " \o f))
    /\ UNCHANGED <<config, readers, writer, op, arg, req, cacheKey, calls,
                   mutations>>

\* Mutant: the response carries the amount the cache key was built from.
AssembleResponse_KeyAmount(r, currentRate, out, ref, t) ==
    [BaseCurrency |-> r.BaseCurrency,
     TargetCurrency |-> r.TargetCurrency,
     CurrentRate |-> currentRate,
     Amount |-> TruncAmount(r.Amount) * 10,
     ForecastType |-> r.ForecastType,
     Periods |-> r.Periods,
     Forecasts |-> ref,
     GeneratedAt |-> t,
     ConfidenceScore |-> out.confidenceScore]

\* The response GenerateForecast assembles from the model's output.
AssembleResponse(r, currentRate, out, ref, t) ==
    [BaseCurrency |-> r.BaseCurrency,
     TargetCurrency |-> r.TargetCurrency,
     CurrentRate |-> currentRate,
     Amount |-> r.Amount,
     ForecastType |-> r.ForecastType,
     Periods |-> r.Periods,
     Forecasts |-> ref,
     GeneratedAt |-> t,
     ConfidenceScore |-> out.confidenceScore]

\* Mutant: the model name is checked before the target lookup.
GF_FetchReturn_TypeFirst(w) ==
    /\ pc[w] = "fetch"
    /\ \E rates \in RateTables :
         LET r == req[w]
             t == now + 1
         IN
         /\ hist' = [hist EXCEPT !.fetches[w] = @ + 1,
                                 !.rates[w] = <<rates>>]
         /\ IF r.ForecastType \notin SupportedTypes
            THEN ReturnFailure(w, Failure("unsupported forecast type: "
                                           \o r.ForecastType))
            ELSE IF r.TargetCurrency \notin DOMAIN rates
            THEN ReturnFailure(w, Failure("target currency " \o r.TargetCurrency
                                           \o " not found in exchange rates"))
            ELSE IF r.Periods < 0
            THEN ReturnFailure(w, Panic("makeslice: len out of range"))
            ELSE LET currentRate == rates[r.TargetCurrency]
                     out == Dispatch(currentRate, r, t)
                     ref == FreshRef(heap)
                 IN  /\ heap' = (ref :> out.forecasts) @@ heap
                     /\ now' = t
                     /\ response' = [response EXCEPT ![w] = <<AssembleResponse(
                                       r, currentRate, out, ref, t)>>]
                     /\ result' = result
                     /\ pc' = [pc EXCEPT ![w] = "lock"]
                     /\ cache' = cache
    /\ UNCHANGED <<config, readers, writer, op, arg, req, cacheKey, calls,
                   mutations>>

\* GetRates returned rates: target lookup, model dispatch, assembly.
GF_FetchReturn(w) ==
    /\ pc[w] = "fetch"
    /\ \E rates \in RateTables :
         LET r == req[w]
             t == now + 1
         IN
         /\ hist' = [hist EXCEPT !.fetches[w] = @ + 1,
                                 !.rates[w] = <<rates>>]
         /\ IF r.TargetCurrency \notin DOMAIN rates
            THEN ReturnFailure(w, Failure("target currency " \o r.TargetCurrency
                                           \o " not found in exchange rates"))
            ELSE IF r.ForecastType \notin SupportedTypes
            THEN ReturnFailure(w, Failure("unsupported forecast type: "
                                           \o r.ForecastType))
            ELSE IF r.Periods < 0
            THEN ReturnFailure(w, Panic("makeslice: len out of range"))
            ELSE LET currentRate == rates[r.TargetCurrency]
                     out == Dispatch(currentRate, r, t)
                     ref == FreshRef(heap)
                 IN  /\ heap' = (ref :> out.forecasts) @@ heap
                     /\ now' = t
                     /\ response' = [response EXCEPT ![w] = <<AssembleResponse(
                                       r, currentRate, out, ref, t)>>]
                     /\ result' = result
                     /\ pc' = [pc EXCEPT ![w] = "lock"]
                     /\ cache' = cache
    /\ UNCHANGED <<config, readers, writer, op, arg, req, cacheKey, calls,
                   mutations>>

\* Mutant: the write lock is taken while readers hold the mutex.
GF_Lock_IgnoresReaders(w) ==
    /\ pc[w] = "lock"
    /\ writer = NoWorker
    /\ writer' = w
    /\ pc' = [pc EXCEPT ![w] = "store"]
    /\ UNCHANGED <<config, cache, heap, readers, now, op, arg, req, cacheKey,
                   response, result, calls, mutations, hist>>

\* fs.cacheMutex.Lock()
GF_Lock(w) ==
    /\ pc[w] = "lock"
    /\ writer = NoWorker
    /\ readers = {}
    /\ writer' = w
    /\ pc' = [pc EXCEPT ![w] = "store"]
    /\ UNCHANGED <<config, cache, heap, readers, now, op, arg, req, cacheKey,
                   response, result, calls, mutations, hist>>

\* Mutant: an entry the key already has is kept.
GF_Store_KeepsFirst(w) ==
    LET r == response[w][1]
        k == cacheKey[w]
    IN  /\ pc[w] = "store"
        /\ cache' = cache @@ (k :> r)
        /\ writer' = NoWorker
        /\ response' = [response EXCEPT ![w] = <<>>]
        /\ result' = [result EXCEPT ![w] = Success(r)]
        /\ heap' = Collect(heap, cache', response', result')
        /\ pc' = [pc EXCEPT ![w] = "done"]
        /\ hist' = [hist EXCEPT
              !.stores[w] = @ + 1,
              !.lastStore = (k :> r) @@ @,
              !.settled = (k :> (Lookup(@, k, {}) \cup {Deep(heap, r)})) @@ @,
              !.cleared = FALSE,
              !.stale = IF hist.preClear[w] THEN @ ELSE @ \ {k}]
        /\ UNCHANGED <<config, readers, now, op, arg, req, cacheKey, calls,
                       mutations>>

\* fs.cache[cacheKey] = *response; Unlock; return response, nil
GF_Store(w) ==
    LET r == response[w][1]
        k == cacheKey[w]
    IN  /\ pc[w] = "store"
        /\ cache' = (k :> r) @@ cache
        /\ writer' = NoWorker
        /\ response' = [response EXCEPT ![w] = <<>>]
        /\ result' = [result EXCEPT ![w] = Success(r)]
        /\ heap' = Collect(heap, cache', response', result')
        /\ pc' = [pc EXCEPT ![w] = "done"]
        /\ hist' = [hist EXCEPT
              !.stores[w] = @ + 1,
              !.lastStore = (k :> r) @@ @,
              !.settled = (k :> (Lookup(@, k, {}) \cup {Deep(heap, r)})) @@ @,
              !.cleared = FALSE,
              !.stale = IF hist.preClear[w] THEN @ ELSE @ \ {k}]
        /\ UNCHANGED <<config, readers, now, op, arg, req, cacheKey, calls,
                       mutations>>

----------------------------------------------------------------------------
(* ClearCache *)

ClearCache(w) ==
    /\ CanCall(w)
    /\ calls' = calls + 1
    /\ op' = [op EXCEPT ![w] = "ClearCache"]
    /\ arg' = [arg EXCEPT ![w] = NoRequest]
    /\ req' = [req EXCEPT ![w] = NoRequest]
    /\ cacheKey' = [cacheKey EXCEPT ![w] = ""]
    /\ result' = [result EXCEPT ![w] = NoResult]
    /\ pc' = [pc EXCEPT ![w] = "cc_lock"]
    /\ hist' = BeginCall(w, "")
    /\ UNCHANGED <<config, cache, heap, readers, writer, now, response,
                   mutations>>

\* fs.cacheMutex.Lock()
CC_Lock(w) ==
    /\ pc[w] = "cc_lock"
    /\ writer = NoWorker
    /\ readers = {}
    /\ writer' = w
    /\ pc' = [pc EXCEPT ![w] = "cc_replace"]
    /\ UNCHANGED <<config, cache, heap, readers, now, op, arg, req, cacheKey,
                   response, result, calls, mutations, hist>>

\* Mutant: the map is not replaced.
CC_Replace_KeepsMap(w) ==
    /\ pc[w] = "cc_replace"
    /\ cache' = cache
    /\ writer' = NoWorker
    /\ heap' = heap
    /\ pc' = [pc EXCEPT ![w] = "done"]
    /\ hist' = [hist EXCEPT
          !.lastStore = <<>>,
          !.settled = <<>>,
          !.sawSettled = [v \in Workers |->
                            IF pc[v] \in {"rlock", "lookup"} THEN {}
                            ELSE hist.sawSettled[v]],
          !.cleared = TRUE,
          !.stale = @ \cup DOMAIN cache,
          !.preClear = [v \in Workers |-> pc[v] \notin {"idle", "done"}]]
    /\ UNCHANGED <<config, readers, now, op, arg, req, cacheKey, response,
                   result, calls, mutations>>

\* Mutant: one entry is deleted instead of the map being replaced.
CC_Replace_DeletesOne(w) ==
    /\ pc[w] = "cc_replace"
    /\ cache' = IF DOMAIN cache = {} THEN cache
                ELSE LET gone == CHOOSE k \in DOMAIN cache : TRUE
                     IN  [k \in DOMAIN cache \ {gone} |-> cache[k]]
    /\ writer' = NoWorker
    /\ heap' = Collect(heap, cache', response, result)
    /\ pc' = [pc EXCEPT ![w] = "done"]
    /\ hist' = [hist EXCEPT
          !.lastStore = <<>>,
          !.settled = <<>>,
          !.sawSettled = [v \in Workers |->
                            IF pc[v] \in {"rlock", "lookup"} THEN {}
                            ELSE hist.sawSettled[v]],
          !.cleared = TRUE,
          !.stale = @ \cup DOMAIN cache,
          !.preClear = [v \in Workers |-> pc[v] \notin {"idle", "done"}]]
    /\ UNCHANGED <<config, readers, now, op, arg, req, cacheKey, response,
                   result, calls, mutations>>

\* Mutant: ClearCache returns without releasing the write lock.
CC_Replace_NoUnlock(w) ==
    /\ pc[w] = "cc_replace"
    /\ cache' = <<>>
    /\ writer' = writer
    /\ heap' = Collect(heap, cache', response, result)
    /\ pc' = [pc EXCEPT ![w] = "done"]
    /\ hist' = [hist EXCEPT
          !.lastStore = <<>>,
          !.settled = <<>>,
          !.sawSettled = [v \in Workers |->
                            IF pc[v] \in {"rlock", "lookup"} THEN {}
                            ELSE hist.sawSettled[v]],
          !.cleared = TRUE,
          !.stale = @ \cup DOMAIN cache,
          !.preClear = [v \in Workers |-> pc[v] \notin {"idle", "done"}]]
    /\ UNCHANGED <<config, readers, now, op, arg, req, cacheKey, response,
                   result, calls, mutations>>

\* fs.cache = make(map[string]models.ForecastResponse); deferred Unlock
CC_Replace(w) ==
    /\ pc[w] = "cc_replace"
    /\ cache' = <<>>
    /\ writer' = NoWorker
    /\ heap' = Collect(heap, cache', response, result)
    /\ pc' = [pc EXCEPT ![w] = "done"]
    /\ hist' = [hist EXCEPT
          !.lastStore = <<>>,
          !.settled = <<>>,
          !.sawSettled = [v \in Workers |->
                            IF pc[v] \in {"rlock", "lookup"} THEN {}
                            ELSE hist.sawSettled[v]],
          !.cleared = TRUE,
          !.stale = @ \cup DOMAIN cache,
          !.preClear = [v \in Workers |-> pc[v] \notin {"idle", "done"}]]
    /\ UNCHANGED <<config, readers, now, op, arg, req, cacheKey, response,
                   result, calls, mutations>>

----------------------------------------------------------------------------
(* Callers *)

\* A caller changes a field of the response it was given.
MutateField(w) ==
    /\ pc[w] = "done"
    /\ Returned(w)
    /\ mutations < MaxMutations
    /\ mutations' = mutations + 1
    /\ result[w].resp[1].CurrentRate # -1
    /\ result' = [result EXCEPT ![w].resp[1].CurrentRate = -1]
    /\ UNCHANGED <<config, cache, heap, readers, writer, now, pc, op, arg,
                   req, cacheKey, response, calls, hist>>

\* A caller changes an element of the Forecasts slice it was given.
MutateElement(w) ==
    /\ pc[w] = "done"
    /\ Returned(w)
    /\ mutations < MaxMutations
    /\ mutations' = mutations + 1
    /\ LET a == result[w].resp[1].Forecasts IN
       \E i \in 1..Len(heap[a]) :
          /\ heap[a][i].Rate # -1
          /\ heap' = [heap EXCEPT ![a][i].Rate = -1]
    /\ UNCHANGED <<config, cache, readers, writer, now, pc, op, arg, req,
                   cacheKey, response, result, calls, hist>>

\* The caller is finished with what the call returned.
Finish(w) ==
    /\ pc[w] = "done"
    /\ pc' = [pc EXCEPT ![w] = "idle"]
    /\ op' = [op EXCEPT ![w] = "none"]
    /\ result' = [result EXCEPT ![w] = NoResult]
    /\ arg' = [arg EXCEPT ![w] = NoRequest]
    /\ req' = [req EXCEPT ![w] = NoRequest]
    /\ cacheKey' = [cacheKey EXCEPT ![w] = ""]
    /\ hist' = BeginCall(w, "")
    /\ heap' = Collect(heap, cache, response, result')
    /\ UNCHANGED <<config, cache, readers, writer, now, response, calls,
                   mutations>>

Next ==
    \E w \in Workers :
        \/ \E r \in Requests : GenerateForecast(w, r)
        \/ GF_RLock(w)
        \/ GF_Lookup(w)
        \/ GF_FetchFailed(w)
        \/ GF_FetchReturn(w)
        \/ GF_Lock(w)
        \/ GF_Store(w)
        \/ ClearCache(w)
        \/ CC_Lock(w)
        \/ CC_Replace(w)
        \/ MutateField(w)
        \/ MutateElement(w)
        \/ Finish(w)

Spec == Init /\ [][Next]_vars

----------------------------------------------------------------------------
(* The service with the clock: the same operations on two requests of one  *)
(* key, and time passing beyond the configured cache TTL.                  *)

TimedRequests ==
    { Request("USD", "EUR", 14, 0, ""),
      Request("USD", "EUR", 19, 1, "linear") }

\* Time passes: longer than the configured cache TTL. The clock is followed
\* while it is below MaxClock.
Tick ==
    /\ now < MaxClock
    /\ now' = now + config.ForecastCacheTTL + 1
    /\ UNCHANGED <<config, cache, heap, readers, writer, pc, op, arg, req,
                   cacheKey, response, result, calls, mutations, hist>>

TimedNext ==
    \/ \E w \in Workers :
        \/ \E r \in TimedRequests : GenerateForecast(w, r)
        \/ GF_RLock(w)
        \/ GF_Lookup(w)
        \/ GF_FetchFailed(w)
        \/ GF_FetchReturn(w)
        \/ GF_Lock(w)
        \/ GF_Store(w)
        \/ ClearCache(w)
        \/ CC_Lock(w)
        \/ CC_Replace(w)
        \/ MutateField(w)
        \/ MutateElement(w)
        \/ Finish(w)
    \/ Tick

TimedSpec == Init /\ [][TimedNext]_vars

----------------------------------------------------------------------------
(* The HTTP boundary of GenerateForecast (api/handlers.go) *)

StatusOK == 200
StatusBadRequest == 400
StatusInternalServerError == 500

\* ShouldBindJSON(&req) succeeds: the binding tags required and gt=0.
ShouldBindJSON(r) ==
    /\ r.BaseCurrency # ""
    /\ r.TargetCurrency # ""
    /\ r.Amount > 0

\* handleServiceError: the status it writes, whatever the error.
handleServiceError(err) == StatusInternalServerError

\* The status Handlers.GenerateForecast answers for the request worker w
\* serves, once the service call has ended; gin.Recovery answers a panic.
HandlerStatus(w) ==
    IF ~ShouldBindJSON(arg[w]) THEN StatusBadRequest
    ELSE IF result[w].panicked THEN StatusInternalServerError
    ELSE IF result[w].err # NoError THEN handleServiceError(result[w].err)
    ELSE StatusOK

----------------------------------------------------------------------------
(* GenerateMultiCurrencyForecast and AnalyzeTrend, next to GenerateForecast *)
(* calls that fill the cache.                                               *)

MultiCurrencyForecastRequest(base, currencies, amount, periods, type) ==
    [BaseCurrency |-> base, Currencies |-> currencies, Amount |-> amount,
     Periods |-> periods, ForecastType |-> type]

\* Multi-currency requests: a currency the rates lack; periods and model
\* left to the defaults; a negative amount and period count; more than 365
\* periods; a model the service does not know; no currency at all.
MultiRequests ==
    { MultiCurrencyForecastRequest("USD", <<"EUR", "GBP">>, 14, 1, "linear"),
      MultiCurrencyForecastRequest("USD", <<"EUR">>, 14, 0, ""),
      MultiCurrencyForecastRequest("USD", <<"EUR", "EUR_X">>, -10, -1,
                                   "moving_average"),
      MultiCurrencyForecastRequest("USD", <<"EUR">>, 14, 366, "linear"),
      MultiCurrencyForecastRequest("USD", <<"EUR_X", "EUR_X">>, 14, 2,
                                   "bogus"),
      MultiCurrencyForecastRequest("", <<>>, 0, 0, "") }

\* The arguments of AnalyzeTrend.
TrendArgs(base, target, periods) ==
    [BaseCurrency |-> base, TargetCurrency |-> target, Periods |-> periods]

TrendRequests ==
    { TrendArgs("USD", "EUR", 30),
      TrendArgs("USD", "EUR_X", -1),
      TrendArgs("", "XXX", 0) }

\* The single-pair requests served meanwhile: two that fill the cache, one
\* the validator rejects and one for a model the service does not know.
PairRequests ==
    { Request("USD", "EUR", 19, 1, "linear"),
      Request("USD", "EUR", 14, 1, "moving_average"),
      Request("USD", "EUR", 0, 0, ""),
      Request("USD", "EUR", 14, 1, "bogus") }

\* return response, nil of GenerateMultiCurrencyForecast
SuccessMulti(m) ==
    [resp |-> <<>>, err |-> NoError, panicked |-> FALSE, multi |-> <<m>>]

\* return analysis, nil of AnalyzeTrend
SuccessTrend(a) ==
    [resp |-> <<>>, err |-> NoError, panicked |-> FALSE, trend |-> <<a>>]

\* The "Set defaults" block of GenerateMultiCurrencyForecast.
ApplyMultiDefaults(cfg, r) ==
    [r EXCEPT
        !.Periods = IF r.Periods = 0 THEN cfg.DefaultForecastPeriods
                                     ELSE r.Periods,
        !.ForecastType = IF r.ForecastType = "" THEN "linear"
                                                ELSE r.ForecastType]

\* The requested currencies the rates hold: those the loop does not skip.
PresentCurrencies(rates, r) ==
    {r.Currencies[i] : i \in 1..Len(r.Currencies)} \cap DOMAIN rates

\* Mutant: a currency the rates lack gets an empty forecast.
CurrencyForecasts_AllRequested(rates, r, today) ==
    [c \in {r.Currencies[i] : i \in 1..Len(r.Currencies)} |->
        IF c \in DOMAIN rates /\ r.ForecastType \in SupportedTypes
        THEN Dispatch(rates[c],
                      Request(r.BaseCurrency, c, r.Amount, r.Periods,
                              r.ForecastType), today).forecasts
        ELSE <<>>]

\* Mutant: a model the switch does not know leaves the currency out.
CurrencyForecasts_SkipsUnknownModel(rates, r, today) ==
    [c \in IF r.ForecastType \in SupportedTypes
           THEN PresentCurrencies(rates, r) ELSE {} |->
        Dispatch(rates[c],
                 Request(r.BaseCurrency, c, r.Amount, r.Periods,
                         r.ForecastType), today).forecasts]

\* The loop over req.Currencies: currencyForecasts. A model the switch
\* does not know leaves forecasts nil.
CurrencyForecasts(rates, r, today) ==
    [c \in PresentCurrencies(rates, r) |->
        IF r.ForecastType \in SupportedTypes
        THEN Dispatch(rates[c],
                      Request(r.BaseCurrency, c, r.Amount, r.Periods,
                              r.ForecastType), today).forecasts
        ELSE <<>>]

\* The response GenerateMultiCurrencyForecast assembles.
MultiCurrencyForecastResponse(r, currencyForecasts, t) ==
    [BaseCurrency |-> r.BaseCurrency,
     Amount |-> r.Amount,
     ForecastType |-> r.ForecastType,
     Periods |-> r.Periods,
     Currencies |-> currencyForecasts,
     GeneratedAt |-> t]

\* Mutant: the band is not around the rate.
TrendAnalysis_FlatBand(base, target, rate, periods, t) ==
    [CurrencyPair |-> base \o "/" \o target,
     Trend |-> "sideways",
     Volatility |-> 5,
     AverageRate |-> rate,
     MinRate |-> rate * 100,
     MaxRate |-> rate * 105,
     AnalysisPeriod |-> periods,
     GeneratedAt |-> t]

\* The analysis AnalyzeTrend assembles. Volatility is in 1/100,
\* AverageRate in 1/10000, MinRate and MaxRate in 1/1000000.
TrendAnalysis(base, target, rate, periods, t) ==
    [CurrencyPair |-> base \o "/" \o target,
     Trend |-> "sideways",
     Volatility |-> 5,
     AverageRate |-> rate,
     MinRate |-> rate * 95,
     MaxRate |-> rate * 105,
     AnalysisPeriod |-> periods,
     GeneratedAt |-> t]

\* Mutant: the call leaves an entry in the forecast cache.
ReturnUncached_Stores(w, res) ==
    /\ result' = [result EXCEPT ![w] = res]
    /\ pc' = [pc EXCEPT ![w] = "done"]
    /\ cache' = ("" :> [BaseCurrency |-> "", TargetCurrency |-> "",
                        CurrentRate |-> 0, Amount |-> 0,
                        ForecastType |-> "", Periods |-> 0,
                        Forecasts |-> 0, GeneratedAt |-> 0,
                        ConfidenceScore |-> 0]) @@ cache
    /\ UNCHANGED <<heap, readers, writer, response>>

\* A return of GenerateMultiCurrencyForecast or AnalyzeTrend: neither
\* takes fs.cacheMutex nor touches fs.cache.
ReturnUncached(w, res) ==
    /\ result' = [result EXCEPT ![w] = res]
    /\ pc' = [pc EXCEPT ![w] = "done"]
    /\ UNCHANGED <<cache, heap, readers, writer, response>>

\* Entry: set defaults in the caller's request; GetRates is outstanding.
GenerateMultiCurrencyForecast(w, r) ==
    /\ CanCall(w)
    /\ calls' = calls + 1
    /\ op' = [op EXCEPT ![w] = "GenerateMultiCurrencyForecast"]
    /\ arg' = [arg EXCEPT ![w] = r]
    /\ req' = [req EXCEPT ![w] = ApplyMultiDefaults(config, r)]
    /\ cacheKey' = [cacheKey EXCEPT ![w] = ""]
    /\ result' = [result EXCEPT ![w] = NoResult]
    /\ pc' = [pc EXCEPT ![w] = "mc_fetch"]
    /\ hist' = BeginCall(w, "")
    /\ UNCHANGED <<config, cache, heap, readers, writer, now, response,
                   mutations>>

\* GetRates failed: return the failure.
MC_FetchFailed(w) ==
    /\ pc[w] = "mc_fetch"
    /\ hist' = [hist EXCEPT !.fetches[w] = @ + 1]
    /\ \E f \in FetchFailures :
         ReturnUncached(w, Failure("failed to fetch exchange rates: " \o f))
    /\ UNCHANGED <<config, now, op, arg, req, cacheKey, calls, mutations>>

\* GetRates returned rates: the loop, whose make panics on a negative
\* period count, and the response.
MC_FetchReturn(w) ==
    /\ pc[w] = "mc_fetch"
    /\ \E rates \in RateTables :
         LET r == req[w]
             t == now + 1
         IN  /\ hist' = [hist EXCEPT !.fetches[w] = @ + 1,
                                     !.rates[w] = <<rates>>]
             /\ IF /\ PresentCurrencies(rates, r) # {}
                   /\ r.ForecastType \in SupportedTypes
                   /\ r.Periods < 0
                THEN /\ ReturnUncached(w, Panic("makeslice: len out of range"))
                     /\ now' = now
                ELSE /\ ReturnUncached(w, SuccessMulti(
                            MultiCurrencyForecastResponse(
                                r, CurrencyForecasts(rates, r, t), t)))
                     /\ now' = t
    /\ UNCHANGED <<config, op, arg, req, cacheKey, calls, mutations>>

\* Entry of AnalyzeTrend: GetRates is outstanding.
AnalyzeTrend(w, a) ==
    /\ CanCall(w)
    /\ calls' = calls + 1
    /\ op' = [op EXCEPT ![w] = "AnalyzeTrend"]
    /\ arg' = [arg EXCEPT ![w] = a]
    /\ req' = [req EXCEPT ![w] = a]
    /\ cacheKey' = [cacheKey EXCEPT ![w] = ""]
    /\ result' = [result EXCEPT ![w] = NoResult]
    /\ pc' = [pc EXCEPT ![w] = "at_fetch"]
    /\ hist' = BeginCall(w, "")
    /\ UNCHANGED <<config, cache, heap, readers, writer, now, response,
                   mutations>>

\* GetRates failed: return the failure.
AT_FetchFailed(w) ==
    /\ pc[w] = "at_fetch"
    /\ hist' = [hist EXCEPT !.fetches[w] = @ + 1]
    /\ \E f \in FetchFailures :
         ReturnUncached(w, Failure("failed to fetch exchange rates: " \o f))
    /\ UNCHANGED <<config, now, op, arg, req, cacheKey, calls, mutations>>

\* GetRates returned rates: the target lookup and the analysis.
AT_FetchReturn(w) ==
    /\ pc[w] = "at_fetch"
    /\ \E rates \in RateTables :
         LET a == arg[w]
             t == now + 1
         IN  /\ hist' = [hist EXCEPT !.fetches[w] = @ + 1,
                                     !.rates[w] = <<rates>>]
             /\ IF a.TargetCurrency \notin DOMAIN rates
                THEN /\ ReturnUncached(w, Failure(
                            "target currency " \o a.TargetCurrency
                                \o " not found in exchange rates"))
                     /\ now' = now
                ELSE /\ ReturnUncached(w, SuccessTrend(TrendAnalysis(
                            a.BaseCurrency, a.TargetCurrency,
                            rates[a.TargetCurrency], a.Periods, t)))
                     /\ now' = t
    /\ UNCHANGED <<config, op, arg, req, cacheKey, calls, mutations>>

AnalysisNext ==
    \E w \in Workers :
        \/ \E r \in PairRequests : GenerateForecast(w, r)
        \/ GF_RLock(w)
        \/ GF_Lookup(w)
        \/ GF_FetchFailed(w)
        \/ GF_FetchReturn(w)
        \/ GF_Lock(w)
        \/ GF_Store(w)
        \/ \E r \in MultiRequests : GenerateMultiCurrencyForecast(w, r)
        \/ MC_FetchFailed(w)
        \/ MC_FetchReturn(w)
        \/ \E a \in TrendRequests : AnalyzeTrend(w, a)
        \/ AT_FetchFailed(w)
        \/ AT_FetchReturn(w)
        \/ Finish(w)

AnalysisSpec == Init /\ [][AnalysisNext]_vars

----------------------------------------------------------------------------
(* The validator on its own: validateForecastRequest applied to one        *)
(* request drawn from the field values below, under each configuration.    *)

BaseCurrencies == {"", "USD", "EUR_X", "XXX"}
TargetCurrencies == {"", "EUR", "EUR_X", "XXX"}
Amounts == {-10, 0, 1, 14}
PeriodCounts == {-1, 0, 1, 365, 366}
ForecastTypes == {"", "linear", "X_linear"}

ValidatorInputs ==
    { Request(b, t, a, p, m) :
        b \in BaseCurrencies, t \in TargetCurrencies, a \in Amounts,
        p \in PeriodCounts, m \in ForecastTypes }

\* The first worker holds the request to validate.
ValidatorInit ==
    /\ config \in Configs
    /\ cache = <<>>
    /\ heap = <<>>
    /\ readers = {}
    /\ writer = NoWorker
    /\ now = 0
    /\ pc = [w \in Workers |-> IF w = 1 THEN "input" ELSE "idle"]
    /\ op = [w \in Workers |-> "none"]
    /\ \E r \in ValidatorInputs :
          /\ arg = [w \in Workers |-> IF w = 1 THEN r ELSE NoRequest]
          /\ req = arg
    /\ cacheKey = [w \in Workers |-> ""]
    /\ response = [w \in Workers |-> <<>>]
    /\ result = [w \in Workers |-> NoResult]
    /\ calls = 0
    /\ mutations = 0
    /\ hist = [fetches |-> [w \in Workers |-> 0],
               lookups |-> [w \in Workers |-> 0],
               stores |-> [w \in Workers |-> 0],
               lastStore |-> <<>>,
               settled |-> <<>>,
               sawSettled |-> [w \in Workers |-> {}],
               cleared |-> FALSE,
               stale |-> {},
               preClear |-> [w \in Workers |-> FALSE],
               rates |-> [w \in Workers |-> <<>>]]

\* err := fs.validateForecastRequest(req)
Validate(w) ==
    /\ pc[w] = "input"
    /\ op' = [op EXCEPT ![w] = "validateForecastRequest"]
    /\ result' = [result EXCEPT
                    ![w] = Failure(validateForecastRequest(config, arg[w]))]
    /\ pc' = [pc EXCEPT ![w] = "validated"]
    /\ UNCHANGED <<config, cache, heap, readers, writer, now, arg, req,
                   cacheKey, response, calls, mutations, hist>>

ValidatorNext == \E w \in Workers : Validate(w)

ValidatorSpec == ValidatorInit /\ [][ValidatorNext]_vars

----------------------------------------------------------------------------
(* The model library on its own: the model switch applied to one validated *)
(* request, for each period count the validator lets through.              *)

MaxPeriods == 365

ModelRates == {1, 1200}

ModelInputs ==
    { Request("USD", "EUR", a, p, m) :
        a \in {14}, p \in 0..MaxPeriods, m \in SupportedTypes }

\* The first worker holds the request and the rates GetRates returned; the
\* configuration plays no part past the validator.
ModelInit ==
    /\ config = CHOOSE c \in Configs : c.DefaultForecastPeriods > 0
    /\ cache = <<>>
    /\ heap = <<>>
    /\ readers = {}
    /\ writer = NoWorker
    /\ now = 0
    /\ pc = [w \in Workers |-> IF w = 1 THEN "fetched" ELSE "idle"]
    /\ op = [w \in Workers |-> IF w = 1 THEN "GenerateForecast" ELSE "none"]
    /\ \E r \in ModelInputs :
          /\ arg = [w \in Workers |-> IF w = 1 THEN r ELSE NoRequest]
          /\ req = arg
    /\ cacheKey = [w \in Workers |-> ""]
    /\ response = [w \in Workers |-> <<>>]
    /\ result = [w \in Workers |-> NoResult]
    /\ calls = 0
    /\ mutations = 0
    /\ \E rate \in ModelRates :
          hist = [fetches |-> [w \in Workers |-> IF w = 1 THEN 1 ELSE 0],
                  lookups |-> [w \in Workers |-> 0],
                  stores |-> [w \in Workers |-> 0],
                  lastStore |-> <<>>,
                  settled |-> <<>>,
                  sawSettled |-> [w \in Workers |-> {}],
                  cleared |-> FALSE,
                  stale |-> {},
                  preClear |-> [w \in Workers |-> FALSE],
                  rates |-> [w \in Workers |->
                              IF w = 1 THEN <<[c \in {"EUR"} |-> rate]>>
                                       ELSE <<>>]]

\* The switch on req.ForecastType and the response built from its output.
RunModel(w) ==
    /\ pc[w] = "fetched"
    /\ LET r == req[w]
           t == now + 1
           currentRate == hist.rates[w][1][r.TargetCurrency]
           out == Dispatch(currentRate, r, t)
           ref == FreshRef(heap)
       IN  /\ heap' = (ref :> out.forecasts) @@ heap
           /\ now' = t
           /\ response' = [response EXCEPT ![w] = <<AssembleResponse(
                             r, currentRate, out, ref, t)>>]
    /\ pc' = [pc EXCEPT ![w] = "generated"]
    /\ UNCHANGED <<config, cache, readers, writer, op, arg, req, cacheKey,
                   result, calls, mutations, hist>>

ModelNext == \E w \in Workers : RunModel(w)

ModelSpec == ModelInit /\ [][ModelNext]_vars

----------------------------------------------------------------------------
(* GenerateForecast under the default period counts the environment can    *)
(* set: DEFAULT_FORECAST_PERIODS goes through mustAtoi into the            *)
(* configuration with no range check.                                      *)

DefaultPeriodCounts == {-1, 0, 366}

UncheckedConfigs ==
    { [SupportedCurrencies |-> <<"USD", "EUR">>,
       DefaultForecastPeriods |-> d,
       ForecastCacheTTL |-> 300] : d \in DefaultPeriodCounts }

\* A request that leaves periods and model to the defaults, and requests
\* that spell out each default value.
DefaultRequests ==
    { Request("USD", "EUR", 14, 0, "") }
    \cup { Request("USD", "EUR", 19, d, "linear") : d \in DefaultPeriodCounts }

DefaultsInit ==
    /\ config \in UncheckedConfigs
    /\ cache = <<>>
    /\ heap = <<>>
    /\ readers = {}
    /\ writer = NoWorker
    /\ now = 0
    /\ pc = [w \in Workers |-> "idle"]
    /\ op = [w \in Workers |-> "none"]
    /\ arg = [w \in Workers |-> NoRequest]
    /\ req = [w \in Workers |-> NoRequest]
    /\ cacheKey = [w \in Workers |-> ""]
    /\ response = [w \in Workers |-> <<>>]
    /\ result = [w \in Workers |-> NoResult]
    /\ calls = 0
    /\ mutations = 0
    /\ hist = [fetches |-> [w \in Workers |-> 0],
               lookups |-> [w \in Workers |-> 0],
               stores |-> [w \in Workers |-> 0],
               lastStore |-> <<>>,
               settled |-> <<>>,
               sawSettled |-> [w \in Workers |-> {}],
               cleared |-> FALSE,
               stale |-> {},
               preClear |-> [w \in Workers |-> FALSE],
               rates |-> [w \in Workers |-> <<>>]]

DefaultsNext ==
    \E w \in Workers :
        \/ \E r \in DefaultRequests : GenerateForecast(w, r)
        \/ GF_RLock(w)
        \/ GF_Lookup(w)
        \/ GF_FetchFailed(w)
        \/ GF_FetchReturn(w)
        \/ GF_Lock(w)
        \/ GF_Store(w)
        \/ Finish(w)

DefaultsSpec == DefaultsInit /\ [][DefaultsNext]_vars

----------------------------------------------------------------------------
(* GenerateForecast and ClearCache under fair scheduling: a worker whose   *)
(* next step can be taken again and again takes it. A step that is not a   *)
(* lock acquisition can be taken whenever the worker is at it, the fetch   *)
(* included, which is taken to return; sync.RWMutex queues a blocked Lock  *)
(* ahead of later RLocks and wakes the blocked readers at Unlock, so a     *)
(* lock acquisition that can be made again and again is made.              *)

\* The next step of worker w's call.
Step(w) ==
    \/ GF_RLock(w)
    \/ GF_Lookup(w)
    \/ GF_FetchFailed(w)
    \/ GF_FetchReturn(w)
    \/ GF_Lock(w)
    \/ GF_Store(w)
    \/ CC_Lock(w)
    \/ CC_Replace(w)

FairNext ==
    \E w \in Workers :
        \/ \E r \in TimedRequests : GenerateForecast(w, r)
        \/ ClearCache(w)
        \/ Step(w)
        \/ Finish(w)

FairSpec ==
    Init /\ [][FairNext]_vars /\ \A w \in Workers : SF_vars(Step(w))

----------------------------------------------------------------------------
(* Properties *)

GFWorkers == {w \in Workers : op[w] = "GenerateForecast"}

\* Worker w's call leaves its cache lookup in this step.
LeavesLookup(w) == pc[w] = "lookup" /\ pc'[w] # "lookup"

\* C1 as claimed: once a GenerateForecast call has stored its response and
\* returned, every later call with the same key, with no ClearCache taking
\* effect in between, returns a response equal to that stored one (current
\* rate, periods sequence, generation timestamp) and fetches nothing.
\* Stated for the runs in which no caller has written to a response it was
\* given, so that the slice sharing of C4 plays no part.
C1_EqualsFirstStored ==
    [][\A w \in Workers :
          (LeavesLookup(w) /\ hist.sawSettled[w] # {} /\ mutations = 0) =>
              /\ pc'[w] = "done"
              /\ result'[w].resp # <<>>
              /\ hist'.fetches[w] = 0
              /\ \A s \in hist.sawSettled[w] :
                    Deep(heap', result'[w].resp[1]) = s]_vars

\* C1 as amended: such a later call returns, without fetching, a copy of
\* the response the most recent store put under its key.
C1_ReturnsLatestStored ==
    [][\A w \in Workers :
          (LeavesLookup(w) /\ hist.sawSettled[w] # {}) =>
              /\ pc'[w] = "done"
              /\ result'[w] = Success(hist.lastStore[cacheKey[w]])
              /\ hist'.fetches[w] = 0]_vars

\* C1's case: a later call was served, without a fetch, the response of a
\* store that overwrote the one that had settled when the call began.
C1_Witness ==
    \E w \in Workers :
        /\ pc[w] = "done"
        /\ hist.sawSettled[w] # {}
        /\ Returned(w)
        /\ hist.fetches[w] = 0
        /\ mutations = 0
        /\ Deep(heap, result[w].resp[1]) \notin hist.sawSettled[w]

\* C2 as claimed: after a ClearCache has returned, a GenerateForecast call
\* begun afterwards, for a key that was cached when the map was replaced
\* and that no call begun since has stored, misses and fetches, whatever
\* calls were in flight while ClearCache ran.
C2_MissesAfterClear ==
    [][\A w \in Workers :
          (LeavesLookup(w) /\ ~hist.preClear[w]
                /\ cacheKey[w] \in hist.stale) =>
              pc'[w] = "fetch"]_vars

\* C2 as amended: it misses and fetches provided no store for its key has
\* taken effect since the map was replaced; a call that was in flight
\* during ClearCache can store afterwards, and then the request hits.
C2_MissesUnlessStoredSince ==
    [][\A w \in Workers :
          (LeavesLookup(w) /\ ~hist.preClear[w]
                /\ cacheKey[w] \in hist.stale
                /\ cacheKey[w] \notin DOMAIN hist.lastStore) =>
              pc'[w] = "fetch"]_vars

\* C2's case: a call begun after a ClearCache, for a key cached before it,
\* has missed and is fetching.
C2_Witness ==
    \E w \in Workers :
        /\ pc[w] = "fetch"
        /\ ~hist.preClear[w]
        /\ cacheKey[w] \in hist.stale
        /\ hist.lookups[w] = 1

\* C3: a GenerateForecast call that ends in a failure leaves the cache as
\* it was and has stored nothing; the cache changes only by ClearCache's
\* map replacement or by the store that ends a successful call, which puts
\* the returned response under the call's key.
C3_StoresOnlyOnSuccess ==
    [][/\ \A w \in Workers :
            (op'[w] = "GenerateForecast" /\ pc[w] # "done"
                  /\ pc'[w] = "done" /\ result'[w].resp = <<>>) =>
                (cache' = cache /\ hist'.stores[w] = 0)
       /\ (cache' # cache) =>
            \E w \in Workers :
                \/ op[w] = "ClearCache" /\ pc[w] = "cc_replace"
                \/ /\ op[w] = "GenerateForecast"
                   /\ pc[w] = "store"
                   /\ pc'[w] = "done"
                   /\ result'[w].resp # <<>>
                   /\ result'[w].err = NoError
                   /\ cache' = (cacheKey[w] :> result'[w].resp[1]) @@ cache
      ]_vars

\* C3's case: a call failed on a cancelled fetch while the cache held an
\* entry.
C3_Witness ==
    \E w \in Workers :
        /\ pc[w] = "done"
        /\ op[w] = "GenerateForecast"
        /\ hist.fetches[w] = 1
        /\ result[w].err = "failed to fetch exchange rates: "
                              \o "failed to fetch rates: context canceled"
        /\ DOMAIN cache # {}

\* C4: a caller's change to a response it was given changes neither an
\* entry of the cache nor the response any other call returned.
C4_CacheImmutable ==
    [][(mutations' # mutations) =>
          /\ \A k \in DOMAIN cache :
                Deep(heap', cache'[k]) = Deep(heap, cache[k])
          /\ \E w \in Workers : \A v \in Workers \ {w} :
                Returned(v) =>
                    Deep(heap', result'[v].resp[1])
                        = Deep(heap, result[v].resp[1])]_vars

AsRequest(r) ==
    Request(r.BaseCurrency, r.TargetCurrency, r.Amount, r.Periods,
            r.ForecastType)

SeparatorFree(cfg) ==
    \A i \in 1..Len(cfg.SupportedCurrencies) :
        cfg.SupportedCurrencies[i] \notin CodesWithSeparator

\* C5 as claimed: every response returned has the base, target, amount,
\* model name and period count of the call's defaulted request. Stated for
\* the configurations whose currency codes do not hold the key's separator,
\* so that the key collisions of C6 play no part.
C5_EchoesRequest ==
    \A w \in GFWorkers :
        (pc[w] = "done" /\ Returned(w) /\ SeparatorFree(config)) =>
            AsRequest(result[w].resp[1]) = req[w]

\* C5 as amended: a response computed on a miss echoes the five fields; a
\* response served from the cache has the request's cache key, hence its
\* period count and its amount up to truncation to an integer.
C5_EchoesUpToKey ==
    \A w \in GFWorkers :
        (pc[w] = "done" /\ Returned(w)) =>
            LET r == result[w].resp[1] IN
            /\ hist.stores[w] = 1 => AsRequest(r) = req[w]
            /\ generateCacheKey(AsRequest(r)) = cacheKey[w]
            /\ r.Periods = req[w].Periods
            /\ TruncAmount(r.Amount) = TruncAmount(req[w].Amount)

\* C5's case: a call was served from the cache a response whose amount is
\* not its request's.
C5_Witness ==
    \E w \in GFWorkers :
        /\ pc[w] = "done"
        /\ Returned(w)
        /\ hist.stores[w] = 0
        /\ result[w].resp[1].Amount # req[w].Amount

\* The five fields the cache key is built from, the amount truncated.
KeyFields(r) ==
    <<r.BaseCurrency, r.TargetCurrency, r.ForecastType, TruncAmount(r.Amount),
      r.Periods>>

\* C6: two requests that reach generateCacheKey get the same key if and
\* only if they agree on base currency, target currency, model name, the
\* amount truncated toward zero to an integer, and periods.
C6_KeyInjective ==
    \A v, w \in GFWorkers :
        (cacheKey[v] # "" /\ cacheKey[w] # "") =>
            /\ cacheKey[v] = generateCacheKey(req[v])
            /\ (cacheKey[v] = cacheKey[w]
                    <=> KeyFields(req[v]) = KeyFields(req[w]))

SupportedSet(cfg) ==
    {cfg.SupportedCurrencies[i] : i \in 1..Len(cfg.SupportedCurrencies)}

C8_InvalidRejectedUntouched ==
    \A w \in GFWorkers :
        validateForecastRequest(config, arg[w]) # NoError =>
            /\ pc[w] = "done"
            /\ result[w] = Failure("invalid request: "
                              \o validateForecastRequest(config, arg[w]))
            /\ hist.fetches[w] = 0
            /\ hist.lookups[w] = 0
            /\ hist.stores[w] = 0
            /\ response[w] = <<>>
            /\ req[w] = arg[w]

\* C8's case: a request that left periods and model name to the defaults
\* was rejected by the validator while the cache held an entry.
C8_Witness ==
    \E w \in GFWorkers :
        /\ pc[w] = "done"
        /\ validateForecastRequest(config, arg[w]) # NoError
        /\ arg[w].Periods = 0
        /\ arg[w].ForecastType = ""
        /\ DOMAIN cache # {}

\* C9: a GenerateForecast call whose request passes validation and names a
\* model that is none of linear, exponential and moving_average never
\* returns a response, is never served from the cache, never assembles a
\* response to store and never stores; once it has returned, it has
\* returned a failure.
C9_UnsupportedNeverForecast ==
    \A w \in GFWorkers :
        (/\ validateForecastRequest(config, arg[w]) = NoError
         /\ arg[w].ForecastType \notin SupportedTypes \cup {""}) =>
            /\ ~Returned(w)
            /\ response[w] = <<>>
            /\ hist.stores[w] = 0
            /\ pc[w] = "done" => result[w].err # NoError

\* C10: once ClearCache has replaced the map, and until a GenerateForecast
\* store takes effect, the cache holds no entry, whatever it held before
\* (nothing, too); and a ClearCache call that has returned has returned no
\* failure.
C10_EmptyAfterClear ==
    /\ hist.cleared => DOMAIN cache = {}
    /\ \A w \in Workers :
          (op[w] = "ClearCache" /\ pc[w] = "done") => result[w] = NoResult

\* C10's case: a ClearCache call has returned after replacing a map that
\* held entries, and no store has taken effect since.
C10_Witness ==
    \E w \in Workers :
        /\ op[w] = "ClearCache"
        /\ pc[w] = "done"
        /\ hist.cleared
        /\ hist.stale # {}
        /\ DOMAIN cache = {}

\* C11: an entry GenerateForecast has stored stays in the cache, with the
\* contents it was stored with, in every step that is neither ClearCache's
\* map replacement nor a store under the same key: whatever time passes and
\* whatever the configured cache TTL is.
C11_EntryStaysUnchanged ==
    [][\A k \in DOMAIN cache :
          (\A w \in Workers :
               /\ ~(pc[w] = "cc_replace" /\ pc'[w] = "done")
               /\ ~(pc[w] = "store" /\ pc'[w] = "done" /\ cacheKey[w] = k)) =>
              /\ k \in DOMAIN cache'
              /\ Deep(heap', cache'[k]) = Deep(heap, cache[k])]_vars

\* The entry itself, the struct with its slice header, through the same
\* steps.
EntryHeaderStays ==
    [][\A k \in DOMAIN cache :
          (\A w \in Workers :
               /\ ~(pc[w] = "cc_replace" /\ pc'[w] = "done")
               /\ ~(pc[w] = "store" /\ pc'[w] = "done" /\ cacheKey[w] = k)) =>
              /\ k \in DOMAIN cache'
              /\ cache'[k] = cache[k]]_vars

MCWorkers == {w \in Workers : op[w] = "GenerateMultiCurrencyForecast"}

ATWorkers == {w \in Workers : op[w] = "AnalyzeTrend"}

Requested(r) == {r.Currencies[i] : i \in 1..Len(r.Currencies)}

\* C12: when the fetch of a GenerateMultiCurrencyForecast call has
\* succeeded, the currency mapping of the response it returns has as keys
\* exactly the requested currencies the fetched rates hold; the currencies
\* they lack raise no error, and when they lack all of them the call
\* succeeds with an empty mapping.
C12_KeysArePresentRequested ==
    \A w \in MCWorkers :
        (pc[w] = "done" /\ hist.rates[w] # <<>>) =>
            LET present == Requested(req[w]) \cap DOMAIN hist.rates[w][1]
                returned == result[w].err = NoError /\ ~result[w].panicked
            IN  /\ result[w].err \in {NoError, "makeslice: len out of range"}
                /\ returned =>
                      DOMAIN result[w].multi[1].Currencies = present
                /\ present = {} =>
                      /\ returned
                      /\ DOMAIN result[w].multi[1].Currencies = {}

\* C12's case: a call that asked for a currency the rates hold and one they
\* lack has returned a mapping with the first alone.
C12_Witness ==
    \E w \in MCWorkers :
        /\ pc[w] = "done"
        /\ req[w].Currencies = <<"EUR", "GBP">>
        /\ hist.rates[w] # <<>>
        /\ result[w].err = NoError
        /\ DOMAIN result[w].multi[1].Currencies = {"EUR"}

\* C13: no step of a GenerateMultiCurrencyForecast or AnalyzeTrend call
\* changes the forecast cache or takes its lock, and a call that has
\* returned has fetched rates once, looked nothing up and stored nothing,
\* whatever the cache holds.
C13_NeverTouchesCache ==
    [][\A w \in Workers :
          (op'[w] \in {"GenerateMultiCurrencyForecast", "AnalyzeTrend"}
                /\ pc'[w] # pc[w]) =>
              /\ cache' = cache
              /\ readers' = readers
              /\ writer' = writer
              /\ hist'.lookups[w] = 0
              /\ hist'.stores[w] = 0
              /\ pc'[w] = "done" => hist'.fetches[w] = 1]_vars

\* C13's case: a multi-currency call has returned a forecast for EUR,
\* fetched, while the cache held a single-pair entry for EUR.
C13_Witness ==
    \E w \in MCWorkers :
        /\ pc[w] = "done"
        /\ hist.fetches[w] = 1
        /\ result[w].err = NoError
        /\ "EUR" \in DOMAIN result[w].multi[1].Currencies
        /\ \E k \in DOMAIN cache : cache[k].TargetCurrency = "EUR"

\* C14: a GenerateMultiCurrencyForecast call that has ended has returned
\* either a multi-currency response or a failure of the fetch, whatever
\* the request; it has not crashed.
C14_ResponseOrDependencyFailure ==
    \A w \in MCWorkers :
        pc[w] = "done" =>
            /\ ~result[w].panicked
            /\ \/ result[w].err = NoError /\ DOMAIN result[w] # DOMAIN NoResult
               \/ result[w].err \in
                     {"failed to fetch exchange rates: " \o f :
                        f \in FetchFailures}

Generated(w) == heap[response[w][1].Forecasts]

\* The confidence score of each model, in 1/10.
ConfidenceOf(type) ==
    CASE type = "linear" -> 7
      [] type = "exponential" -> 6
      [] type = "moving_average" -> 5

\* C15: for a request of P periods, 0 <= P <= 365, each of the three
\* models returns exactly P periods, numbered 1, 2, ..., P in order (none
\* for P = 0), and its confidence score: 0.7 for linear, 0.6 for
\* exponential, 0.5 for moving_average, above 0 and at most 1.
C15_PeriodsAndConfidence ==
    \A w \in Workers :
        pc[w] = "generated" =>
            LET r == response[w][1] IN
            /\ req[w].Periods \in 0..365
            /\ Len(Generated(w)) = req[w].Periods
            /\ \A i \in 1..Len(Generated(w)) : Generated(w)[i].Period = i
            /\ r.ConfidenceScore = ConfidenceOf(req[w].ForecastType)
            /\ r.ConfidenceScore > 0
            /\ r.ConfidenceScore <= 10

\* C15's case: the moving_average model has produced 365 periods.
C15_Witness ==
    \E w \in Workers :
        /\ pc[w] = "generated"
        /\ req[w].ForecastType = "moving_average"
        /\ Len(Generated(w)) = 365
        /\ Generated(w)[365].Period = 365

\* C16: for a current rate above 0 and at least two periods, the rates the
\* exponential model emits, rounded to 4 decimal places, increase strictly
\* from each period to the next.
C16_ExponentialStrictlyIncreasing ==
    \A w \in Workers :
        (/\ pc[w] = "generated"
         /\ req[w].ForecastType = "exponential"
         /\ response[w][1].CurrentRate > 0
         /\ req[w].Periods >= 2) =>
            \A n \in 1..(req[w].Periods - 1) :
                Generated(w)[n].Rate < Generated(w)[n + 1].Rate

FetchFailureErrors ==
    {"failed to fetch exchange rates: " \o f : f \in FetchFailures}

NotFoundError(r) ==
    "target currency " \o r.TargetCurrency \o " not found in exchange rates"

UnsupportedTypeError(r) == "unsupported forecast type: " \o r.ForecastType

\* The service returned worker w a failure of a client-side kind: a
\* validation failure or an unsupported model name.
ClientSideFailure(w) ==
    /\ pc[w] = "done"
    /\ ~result[w].panicked
    /\ \/ /\ validateForecastRequest(config, arg[w]) # NoError
          /\ result[w].err # NoError
       \/ result[w].err = UnsupportedTypeError(req[w])

\* The service returned worker w a failure of a dependency-side kind: a
\* failed fetch or a target the fetched rates lack.
DependencySideFailure(w) ==
    /\ pc[w] = "done"
    /\ ~result[w].panicked
    /\ result[w].err \in FetchFailureErrors \cup {NotFoundError(req[w])}

\* C18: at the HTTP boundary, a failure of a client-side kind that the
\* service returned is answered with a status other than the one a failure
\* of a dependency-side kind is answered with.
C18_StatusSeparatesKinds ==
    \A v, w \in GFWorkers :
        (/\ ShouldBindJSON(arg[v]) /\ ClientSideFailure(v)
         /\ ShouldBindJSON(arg[w]) /\ DependencySideFailure(w)) =>
            HandlerStatus(v) # HandlerStatus(w)

\* The validator's checks in the order claimed, each with its reason.
ChecksInOrder(cfg, r) ==
    << <<r.BaseCurrency = "", "base currency is required">>,
       <<r.TargetCurrency = "", "target currency is required">>,
       <<r.Amount <= 0, "amount must be greater than 0">>,
       <<r.Periods < 0, "periods cannot be negative">>,
       <<r.Periods > 365, "periods cannot exceed 365">>,
       <<r.BaseCurrency \notin SupportedSet(cfg),
         "base currency " \o r.BaseCurrency \o " is not supported">>,
       <<r.TargetCurrency \notin SupportedSet(cfg),
         "target currency " \o r.TargetCurrency \o " is not supported">> >>

\* The failures the claimed order allows worker w's ended call: those of
\* the first step that fails, or none.
ExpectedErrors(w) ==
    LET checks == ChecksInOrder(config, arg[w])
        failing == {i \in 1..Len(checks) : checks[i][1]}
    IN  IF failing # {}
        THEN {"invalid request: "
                \o checks[CHOOSE i \in failing :
                            \A j \in failing : i <= j][2]}
        ELSE IF hist.fetches[w] = 0 THEN {NoError}
        ELSE IF hist.rates[w] = <<>> THEN FetchFailureErrors
        ELSE IF req[w].TargetCurrency \notin DOMAIN hist.rates[w][1]
        THEN {NotFoundError(req[w])}
        ELSE IF req[w].ForecastType \notin SupportedTypes
        THEN {UnsupportedTypeError(req[w])}
        ELSE {NoError}

\* C19: a GenerateForecast call that has ended without a crash reports the
\* failure of the first failing step in the order: the validator's seven
\* checks; on a miss, the fetch; the target lookup in the fetched rates;
\* the model dispatch. The steps after the failing one are not taken: no
\* lookup and no fetch after a validation failure.
C19_FirstFailingStep ==
    \A w \in GFWorkers :
        (pc[w] = "done" /\ ~result[w].panicked) =>
            /\ result[w].err \in ExpectedErrors(w)
            /\ validateForecastRequest(config, arg[w]) # NoError =>
                  hist.lookups[w] = 0 /\ hist.fetches[w] = 0
            /\ hist.fetches[w] = 1 => hist.lookups[w] = 1

\* C19's case: a request with an unknown model name was reported the
\* target currency missing from the fetched rates.
C19_Witness ==
    \E w \in GFWorkers :
        /\ pc[w] = "done"
        /\ req[w].ForecastType \notin SupportedTypes
        /\ hist.rates[w] # <<>>
        /\ result[w].err = NotFoundError(req[w])

\* C20: the store that ends a GenerateForecast call is made under the
\* write lock, puts the response the call computed itself under its key,
\* replacing what the key held and leaving every other entry, and returns
\* that same response to the caller; so the cache holds one entry per
\* key, the response of the store that executed last.
C20_LastStoreWins ==
    [][\A w \in Workers :
          (pc[w] = "store" /\ pc'[w] = "done") =>
              LET k == cacheKey[w] IN
              /\ writer = w
              /\ readers = {}
              /\ response[w] # <<>>
              /\ result'[w] = Success(response[w][1])
              /\ DOMAIN cache' = DOMAIN cache \cup {k}
              /\ cache'[k] = response[w][1]
              /\ \A j \in DOMAIN cache \ {k} : cache'[j] = cache[j]
              /\ \A j \in DOMAIN cache' : cache'[j] = hist'.lastStore[j]]_vars

\* C20's case: two calls for one key have both missed, stored and returned,
\* each with its own response, and the cache holds one of the two.
C20_Witness ==
    \E v, w \in GFWorkers :
        /\ v # w
        /\ pc[v] = "done" /\ pc[w] = "done"
        /\ hist.stores[v] = 1 /\ hist.stores[w] = 1
        /\ cacheKey[v] = cacheKey[w]
        /\ result[v].resp # result[w].resp
        /\ DOMAIN cache = {cacheKey[w]}
        /\ cache[cacheKey[w]] = result[w].resp[1]

\* The workers holding fs.cacheMutex, for reading or for writing.
LockHolders == readers \cup ({writer} \ {NoWorker})

\* The workers whose GetRates call is outstanding.
Fetching == {w \in Workers : pc[w] = "fetch"}

\* C21: a GenerateForecast worker waiting on the upstream fetch holds
\* fs.cacheMutex neither for reading nor for writing; so a worker about to
\* look up, store or clear, when every other worker is waiting on a fetch
\* or holds no call, finds the lock free.
C21_NoLockAcrossFetch ==
    /\ \A w \in Fetching : w \notin LockHolders
    /\ \A v \in Workers :
          (/\ pc[v] \in {"rlock", "lock", "cc_lock"}
           /\ \A w \in Workers \ {v} : pc[w] \in {"fetch", "idle", "done"}) =>
              writer = NoWorker /\ readers = {}

\* C21's case: a worker is waiting on the fetch while another holds the
\* write lock to store its response.
C21_Witness ==
    \E v, w \in GFWorkers :
        /\ pc[w] = "fetch"
        /\ pc[v] = "store"
        /\ writer = v

\* The workers reading the map, and those writing it.
Looking == {w \in Workers : pc[w] = "lookup"}
Writing == {w \in Workers : pc[w] \in {"store", "cc_replace"}}

\* C22: a worker looking up holds the read lock, a worker storing or
\* replacing the map holds the write lock; a worker that is storing or
\* clearing is the only worker at the map; and the map changes only in a
\* step of the worker holding the write lock, which releases it.
C22_MapAccessUnderLock ==
    /\ [](/\ \A w \in Looking : w \in readers
          /\ \A w \in Writing : writer = w
          /\ readers \subseteq Looking
          /\ writer # NoWorker => writer \in Writing /\ readers = {}
          /\ \A w \in Writing : Looking = {} /\ Writing = {w})
    /\ [][cache' # cache =>
            /\ writer \in Writing
            /\ pc'[writer] = "done"
            /\ writer' = NoWorker]_vars

\* C22's case: two lookups proceed together, both holding the read lock.
C22_Witness ==
    /\ Cardinality(Looking) = 2
    /\ readers = Looking
    /\ writer = NoWorker

\* The upstream fetches a GenerateForecast call has made, by its position.
FetchesOfForecast(w) ==
    CASE pc[w] \in {"rlock", "lookup", "fetch"} -> hist.fetches[w] = 0
      [] pc[w] \in {"lock", "store"} -> hist.fetches[w] = 1
      [] pc[w] = "done" ->
            IF validateForecastRequest(config, arg[w]) # NoError
            THEN hist.fetches[w] = 0 /\ hist.lookups[w] = 0
            ELSE IF Returned(w) /\ hist.stores[w] = 0
            THEN hist.fetches[w] = 0 /\ hist.lookups[w] = 1
            ELSE hist.fetches[w] = 1 /\ hist.lookups[w] = 1
      [] OTHER -> FALSE

\* C23: a GenerateForecast call makes no upstream fetch when validation
\* fails or the cache hits and exactly one on a miss; a
\* GenerateMultiCurrencyForecast call and an AnalyzeTrend call make exactly
\* one each, whatever the number of target currencies; and a call whose
\* fetch failed has ended with that failure, nothing else tried.
C23_NoRetry ==
    /\ \A w \in GFWorkers : FetchesOfForecast(w)
    /\ \A w \in MCWorkers \cup ATWorkers :
          hist.fetches[w] = IF pc[w] = "done" THEN 1 ELSE 0
    /\ \A w \in Workers :
          (hist.fetches[w] = 1 /\ hist.rates[w] = <<>>) =>
              /\ pc[w] = "done"
              /\ result[w].err \in FetchFailureErrors
              /\ result[w].resp = <<>>

\* C23's case: a multi-currency call for two target currencies has
\* returned its response after one fetch.
C23_Witness ==
    \E w \in MCWorkers :
        /\ pc[w] = "done"
        /\ Len(req[w].Currencies) = 2
        /\ "multi" \in DOMAIN result[w]
        /\ hist.fetches[w] = 1

\* Worker w's GenerateForecast call begins in this step.
BeginsForecast(w) == pc[w] = "idle" /\ op'[w] = "GenerateForecast"

\* The key of request r once the defaults are filled in.
DefaultedKey(r) == generateCacheKey(ApplyDefaults(config, r))

\* C24: GenerateForecast fills in the defaults after validation and before
\* the key is computed, in the caller's request: periods 0 becomes the
\* configured default, an empty model name "linear". So a request leaving
\* them out and a request spelling out the default values have one cache
\* entry: a call beginning when a call for the same defaulted fields has
\* stored and returned looks its key up and is served from the cache
\* without a fetch.
C24_DefaultsShareEntry ==
    /\ [](\A w \in GFWorkers :
            validateForecastRequest(config, arg[w]) = NoError =>
                /\ req[w] = ApplyDefaults(config, arg[w])
                /\ cacheKey[w] = generateCacheKey(req[w]))
    /\ [][\A w \in Workers :
            (BeginsForecast(w) /\ DefaultedKey(arg'[w]) \in DOMAIN hist.settled)
                => (pc'[w] = "rlock" /\ cacheKey'[w] = DefaultedKey(arg'[w]))]_vars
    /\ [](\A w \in GFWorkers :
            (pc[w] = "done" /\ hist.sawSettled[w] # {}) =>
                /\ Returned(w)
                /\ hist.fetches[w] = 0
                /\ hist.stores[w] = 0)

\* The responses the cache holds and those calls have returned.
ResponsesHeld ==
    {cache[k] : k \in DOMAIN cache}
    \cup {result[w].resp[1] : w \in {v \in GFWorkers : Returned(v)}}

\* C25: whatever default period count the environment configured, a
\* GenerateForecast call on a request the validator accepted ends with a
\* response or a failure, and every response returned or cached has a
\* period count within 0..365 and exactly that many forecast periods.
C25_PeriodsWithinRange ==
    /\ \A w \in GFWorkers :
          (pc[w] = "done" /\ validateForecastRequest(config, arg[w]) = NoError)
              => /\ ~result[w].panicked
                 /\ Returned(w) \/ result[w].err # NoError
    /\ \A r \in ResponsesHeld :
          /\ r.Periods \in 0..MaxPeriods
          /\ Len(heap[r.Forecasts]) = r.Periods

\* The cache key computed from a cached entry's own fields.
KeyOfEntry(entry) ==
    generateCacheKey(Request(entry.BaseCurrency, entry.TargetCurrency,
                             entry.Amount, entry.Periods, entry.ForecastType))

\* C26: every entry of the cache is well formed: the key computed from its
\* own base currency, target currency, model name, truncated amount and
\* period count is the key it is held under; its model name is linear,
\* exponential or moving_average; it has as many forecast periods as its
\* period count; its confidence score is its model's constant.
C26_EntriesWellFormed ==
    \A k \in DOMAIN cache :
        /\ KeyOfEntry(cache[k]) = k
        /\ cache[k].ForecastType \in SupportedTypes
        /\ Len(heap[cache[k].Forecasts]) = cache[k].Periods
        /\ cache[k].ConfidenceScore = ConfidenceOf(cache[k].ForecastType)

\* C26's case: the cache holds two entries, one of them computed for a
\* request that left periods and model to the defaults.
C26_Witness ==
    /\ Cardinality(DOMAIN cache) = 2
    /\ \E w \in GFWorkers :
          /\ pc[w] = "done"
          /\ hist.stores[w] = 1
          /\ arg[w].Periods = 0 /\ arg[w].ForecastType = ""
          /\ cacheKey[w] \in DOMAIN cache

\* Worker w is inside a call.
InCall(w) == pc[w] \notin {"idle", "done"}

\* Worker w waits for fs.cacheMutex, which it cannot take now.
Blocked(w) ==
    \/ pc[w] = "rlock" /\ writer # NoWorker
    \/ pc[w] \in {"lock", "cc_lock"} /\ (writer # NoWorker \/ readers # {})

\* C27: with GenerateForecast and ClearCache calls interleaved in any way
\* and every fetch returning, every call ends; every lock taken is
\* released, so that when no call is running the mutex is held by nobody,
\* for reading or for writing; and while calls are running, one of them
\* is not blocked.
C27_CallsEndLocksReleased ==
    /\ [](/\ (\A w \in Workers : ~InCall(w)) =>
                 (readers = {} /\ writer = NoWorker)
          /\ (\E w \in Workers : InCall(w)) =>
                 (\E w \in Workers : InCall(w) /\ ~Blocked(w))
          /\ \A w \in LockHolders : InCall(w))
    /\ \A w \in Workers : InCall(w) ~> pc[w] = "done"

\* C27's case: a ClearCache call and a GenerateForecast call that stored
\* have both ended, the map was replaced while the GenerateForecast call
\* was running, and the mutex is free.
C27_Witness ==
    \E v, w \in Workers :
        /\ op[v] = "ClearCache" /\ pc[v] = "done"
        /\ op[w] = "GenerateForecast" /\ pc[w] = "done"
        /\ hist.stores[w] = 1
        /\ hist.preClear[w]
        /\ readers = {} /\ writer = NoWorker

\* The model name of worker w's request is given and is none of the three.
UnknownModel(w) == arg[w].ForecastType \notin SupportedTypes \cup {""}

C29_LinearPositive ==
    \A w \in Workers :
        (/\ pc[w] = "generated"
         /\ req[w].ForecastType = "linear"
         /\ response[w][1].CurrentRate > 0
         /\ req[w].Amount > 0
         /\ req[w].Periods >= 1) =>
            \A n \in 1..req[w].Periods :
                /\ Generated(w)[n].Rate > 0
                /\ Generated(w)[n].Amount > 0

\* The rate of period n before rounding, as <<numerator, denominator>> of
\* the factor on the current rate, for each model.
FactorOf(type, n) ==
    CASE type = "linear" -> <<1000 + n, 1000>>
      [] type = "exponential" -> <<Growth(n), 1000000>>
      [] type = "moving_average" -> <<1000000 + Variation(n), 1000000>>

\* The rounded values of a period, without its date.
Values(p) ==
    [Rate |-> p.Rate, Amount |-> p.Amount, Change |-> p.Change,
     ChangePercent |-> p.ChangePercent]

\* The values of period n as the current rate, the amount and n give them.
ValuesFrom(type, currentRate, amount, n) ==
    LET f == FactorOf(type, n)[1]
        g == FactorOf(type, n - 1)[1]
        den == FactorOf(type, n)[2]
    IN  [Rate |-> MulDivRound(currentRate, f, den),
         Amount |-> AmountRound(amount * currentRate, f, den),
         Change |-> IF n = 1 THEN 0 ELSE RoundDiv(currentRate * (f - g), den),
         ChangePercent |-> IF n = 1 THEN 0 ELSE RoundDiv(10000 * (f - g), g)]

\* C30: for each model, the period of index n of a forecast of P periods
\* has the rate, amount, change and change percent of period n of the
\* forecast of n periods for the same current rate and amount, so that a
\* shorter forecast is a prefix of a longer one; they are what the current
\* rate, the amount and n alone give, nothing being taken from an earlier
\* period's rounded output; change and change percent are 0 for n = 1.
C30_PeriodFromRateAndIndex ==
    \A w \in Workers :
        pc[w] = "generated" =>
            LET r == req[w]
                currentRate == response[w][1].CurrentRate
            IN  \A n \in 1..r.Periods :
                    /\ Values(Generated(w)[n]) =
                          Values(Dispatch(currentRate, [r EXCEPT !.Periods = n],
                                          now).forecasts[n])
                    /\ Values(Generated(w)[n]) =
                          ValuesFrom(r.ForecastType, currentRate, r.Amount, n)
                    /\ n = 1 => /\ Generated(w)[n].Change = 0
                                /\ Generated(w)[n].ChangePercent = 0

\* C30's case: an exponential forecast of 365 periods, whose second period
\* has a change other than 0.
C30_Witness ==
    \E w \in Workers :
        /\ pc[w] = "generated"
        /\ req[w].ForecastType = "exponential"
        /\ Len(Generated(w)) = 365
        /\ Generated(w)[2].Change # 0
        /\ Generated(w)[1].Change = 0

====
